---- MODULE Spec2Model ----
(***************************************************************************)
(* Model of the RareAgent research workflow: the LangGraph orchestration   *)
(* graph of orchestrator.py (explorer -> proponent -> skeptic -> validator *)
(* -> {proponent | END}) and the four agents that mutate the shared        *)
(* RareAgentState.  The external collaborators (the LLM behind dspy, the   *)
(* PubChem / UniProt / PubMed services) are nondeterministic choices over  *)
(* the answers they can give, including failures.                          *)
(*                                                                         *)
(* Text values are abstracted: an f-string is the tuple of its parts, the  *)
(* empty string is <<"">> and Python's None is NoReason / None.  Free LLM  *)
(* text (mechanism, rationale, critique, safety concerns) is one token.    *)
(*                                                                         *)
(* The steps are written once, with the answers of the collaborators as    *)
(* parameters.  Spec runs the graph under every answer with few            *)
(* hypotheses; LongSpec, DebateSpec and LookupSpec run the same steps      *)
(* under a narrower choice of answers in one or two dimensions, so that    *)
(* longer hypothesis lists are explored in full; GatherSpec and ManySpec   *)
(* do the same for the explorer's outcomes and for more than five passes.  *)
(*                                                                         *)
(* The service adapters of core/ are modelled call by call, on variables   *)
(* of their own that stay idle while the graph runs: PubChemSpec follows   *)
(* calls of PubChemAPI._make_request (rate limiter, retries and backoff on *)
(* a clock counted in quarter seconds), UniProtSpec one call of            *)
(* UniProtAPI.get_uniprot_data over the pages a server holds, IdMapSpec    *)
(* one call of UniProtAPI.get_id_mapping_results (status poll, then the    *)
(* results pages), EntrezSpec one call of NCBIEntrezAPI.fetch_details,     *)
(* LinkSpec one evaluation of the validator's disease-link check, and      *)
(* LimiterSpec two threads in PubChemAPI._wait_for_rate_limit.             *)
(***************************************************************************)
EXTENDS Integers, Sequences, FiniteSets, TLC

\* The shared record of the graph (RareAgentState), the node that is due
\* (pc) and four observers: of the latest Validating steps (probe, streak),
\* of the LLM call of the latest step (llm_call) and of the literature
\* search of the Gathering step (lit_search).
VARIABLES pc, current_disease, genetic_targets, evidence, hypotheses,
          debate_history, retry_count, last_rejection_reason,
          evaluated_drugs, probe, streak, llm_call, lit_search

\* One call into a service adapter of core/: its control point (cpc), how
\* it ended (outcome), the wall clock, the adapter's fields and the
\* locals of the call, the pages the server holds, and two observers of
\* the traffic (net) and of the job poll (job).
VARIABLES cpc, outcome, clock, last_request_time, retries, url,
          all_results, pages, net, job

\* One evaluation of a function of the program that reads no state: its
\* arguments and the value it returned.
VARIABLES call_args, call_result

\* The threads that call into one shared adapter: for each its control
\* point, its locals and the times at which it sent a request.
VARIABLES threads

graphVars == <<pc, current_disease, genetic_targets, evidence, hypotheses,
               debate_history, retry_count, last_rejection_reason,
               evaluated_drugs, probe, streak, llm_call, lit_search>>

clientVars == <<cpc, outcome, clock, last_request_time, retries, url,
                all_results, pages, net, job>>

callVars == <<call_args, call_result>>

threadVars == <<threads>>

vars == <<pc, current_disease, genetic_targets, evidence, hypotheses,
          debate_history, retry_count, last_rejection_reason,
          evaluated_drugs, probe, streak, llm_call, lit_search,
          cpc, outcome, clock, last_request_time, retries, url,
          all_results, pages, net, job, call_args, call_result, threads>>

(* ------------------------------ bounds -------------------------------- *)

\* Caps on the number of successful proposals of one run (the code has
\* none): MaxHyps for the graph under every answer of the collaborators,
\* MaxLongHyps for the graph under the narrower answers of LongSpec.
MaxHyps == 2

MaxLongHyps == 5

(* ----------------------------- constants ------------------------------ *)

MAX_HYPOTHESES == 5

END == "END"

\* Python None for string-valued fields, and for the optional reason.
None == "None"
NoReason == <<>>
EmptyStr == <<"">>

\* Absent "validation" key of a hypothesis (hypothesis.get("validation", {})).
NoValidation == [absent |-> TRUE]

(* ------------------------------ inputs -------------------------------- *)

\* Subjects handed to run_research; "" is the falsy subject.
Diseases == {"", "Cystic Fibrosis"}

\* What the proposal LLM can answer: (drug_name, target_gene).
Proposals == {<<"Ivacaftor", "CFTR">>, <<"Aspirin", "BRCA1">>}

\* What the critique LLM can answer as verdict.
Verdicts == {"SAFE", "RISKY", "REJECT"}

\* search_pubmed raising instead of answering with uids.
PubMedRaises == <<"raise">>

\* The LLM call raising instead of answering (proposal, critique).
ProposalRaises == <<"raise">>
CritiqueRaises == "raise"

\* Outcomes of the explorer's two lookups (PubMed search, UniProt search).
ExplorerOutcomes ==
    { [uids |-> u, genetic_targets |-> tg] :
        u \in {<<>>, <<"1">>, PubMedRaises}, tg \in {<<>>, <<"CFTR">>} }

\* Answers of the three lookups of the validator for one hypothesis.  A
\* lookup answers with a value, with nothing, or by raising.  Answers the
\* code does not consult are fixed to "none".
CidAnswers == {"cid", "none", "raise"}
TargetAnswers == {"entry", "none", "raise"}
LinkAnswers == {"linked", "none", "raise"}

EnvAnswers ==
    { e \in [pubchem : CidAnswers, uniprot : TargetAnswers, link : LinkAnswers] :
        /\ e.pubchem # "cid" => e.uniprot = "none"
        /\ e.uniprot # "entry" => e.link = "none" }

(* --------------------------- validator.py ----------------------------- *)

\* _step_1_get_cid: every exception of the lookup is swallowed into None.
step_1_get_cid(e) == IF e.pubchem = "cid" THEN "cid" ELSE None

\* _step_3_4_verify_target: every exception is swallowed into None.
step_3_4_verify_target(e) == IF e.uniprot = "entry" THEN "entry" ELSE None

\* The initial validation_report of the loop body.
InitialReport ==
    [step_1_cid_found |-> FALSE, step_2_target_match |-> FALSE,
     step_3_human_reviewed |-> FALSE, step_4_disease_link |-> FALSE,
     overall_status |-> "REJECTED", reason |-> EmptyStr]

\* Report after the target resolved: lines 71-72 of the loop body.
TargetResolved_mut(r) == [r EXCEPT !.step_2_target_match = TRUE]

TargetResolved(r) ==
    [r EXCEPT !.step_3_human_reviewed = TRUE, !.step_2_target_match = TRUE]

\* Report after all checks passed: lines 82-86 of the loop body.
AllPassed_mut(r) ==
    [r EXCEPT !.overall_status = "APPROVED",
              !.reason = <<"All deterministic checks passed.">>]

AllPassed(r) ==
    [r EXCEPT !.step_4_disease_link = TRUE,
              !.overall_status = "APPROVED",
              !.reason = <<"All deterministic checks passed.">>]

\* hypothesis["cid"] = cid of ValidatorAgent.run.
WithCid_mut(h, cid) == [h EXCEPT !.cid = cid, !.skeptic_verdict = None]

WithCid(h, cid) == [h EXCEPT !.cid = cid]

\* Body of the for loop of ValidatorAgent.run for one hypothesis h under
\* the answers e: the hypothesis with its report (and cid) written, and the
\* lookups the body issued on the way, in order.
ValidateTrace(h, disease, e) ==
    LET r0 == InitialReport
        cid == step_1_get_cid(e)
    IN  IF cid = None
        THEN [hyp |-> [h EXCEPT !.validation =
                        [r0 EXCEPT !.reason = <<"Drug CID not found.">>]],
              lookups |-> <<"pubchem">>]
        ELSE
        LET r1 == [r0 EXCEPT !.step_1_cid_found = TRUE]
            h1 == WithCid(h, cid)
            entry == step_3_4_verify_target(e)
        IN  IF entry = None
            THEN [hyp |-> [h1 EXCEPT !.validation =
                            [r1 EXCEPT !.reason = <<"Target ", h.target_gene,
                                 " not found as valid Human Reviewed protein.">>]],
                  lookups |-> <<"pubchem", "uniprot">>]
            ELSE
            LET r2 == TargetResolved(r1)
                all == <<"pubchem", "uniprot", "disease_link">>
            IN  IF e.link = "raise"
                THEN [hyp |-> [h1 EXCEPT !.validation =
                                [r2 EXCEPT !.reason = <<"Error: ", "disease_link">>]],
                      lookups |-> all]
                ELSE IF e.link # "linked"
                THEN [hyp |-> [h1 EXCEPT !.validation =
                                [r2 EXCEPT !.reason = <<"Target ", h.target_gene,
                                     " not confirmed linked to ", disease, ".">>]],
                      lookups |-> all]
                ELSE [hyp |-> [h1 EXCEPT !.validation = AllPassed(r2)],
                      lookups |-> all]

\* The lookup that raised among the answers the body consulted, if any.
RaisedOf(e) ==
    IF e.pubchem = "raise" THEN "pubchem"
    ELSE IF e.uniprot = "raise" THEN "uniprot"
    ELSE IF e.link = "raise" THEN "disease_link"
    ELSE "none"

\* Tail of ValidatorAgent.run: the retry bookkeeping on the latest element.
RetryAfter_mut(validated, rc) ==
    IF \E i \in 1..Len(validated) : validated[i].validation.overall_status # "APPROVED"
    THEN rc + 1 ELSE rc

RetryAfter(validated, rc) ==
    IF validated # <<>> /\ validated[Len(validated)].validation.overall_status # "APPROVED"
    THEN rc + 1 ELSE rc

ReasonAfter_mut(validated) ==
    IF validated # <<>>
    THEN validated[Len(validated)].validation.reason
    ELSE NoReason

ReasonAfter(validated) ==
    IF validated # <<>> /\ validated[Len(validated)].validation.overall_status # "APPROVED"
    THEN validated[Len(validated)].validation.reason
    ELSE NoReason

(* ---------------------------- observers ------------------------------ *)

\* probe[i] records, for the i-th hypothesis of the most recent Validating
\* step, the lookups issued for it and the lookup that raised.  streak is the
\* number of Validating steps completed so far when every one of them
\* rejected the most recent hypothesis, and NoStreak otherwise.
NoStreak == 0 - 1

StreakAfter(validated, st) ==
    IF /\ st # NoStreak
       /\ validated # <<>>
       /\ validated[Len(validated)].validation.overall_status = "REJECTED"
    THEN st + 1 ELSE NoStreak

(* -------------------------- orchestrator.py --------------------------- *)

\* hypothesis.get("validation", {}).get("overall_status")
StatusOf(h) == IF h.validation = NoValidation THEN None ELSE h.validation.overall_status

\* hypothesis.get("skeptic_verdict", "UNKNOWN")
VerdictOf(h) == IF h.skeptic_verdict = None THEN "UNKNOWN" ELSE h.skeptic_verdict

should_continue_mut(hyps, rc) ==
    IF hyps = <<>> THEN END
    ELSE LET latest == hyps[Len(hyps)]
             is_valid == StatusOf(latest) = "APPROVED"
             is_safe == VerdictOf(latest) # "REJECT" /\ VerdictOf(latest) # "RISKY"
         IN  IF is_valid /\ is_safe THEN END
             ELSE IF rc <= MAX_HYPOTHESES THEN "proponent"
             ELSE END

should_continue(hyps, rc) ==
    IF hyps = <<>> THEN END
    ELSE LET latest == hyps[Len(hyps)]
             is_valid == StatusOf(latest) = "APPROVED"
             is_safe == VerdictOf(latest) # "REJECT" /\ VerdictOf(latest) # "RISKY"
         IN  IF is_valid /\ is_safe THEN END
             ELSE IF rc < MAX_HYPOTHESES THEN "proponent"
             ELSE END

(* ------------------------------ actions ------------------------------- *)

\* No call into a service adapter is being followed: the adapter as
\* constructed (last_request_time = 0), no call in progress.
NoPages == <<>>

NoTraffic == [calls |-> 0, total |-> 0, requests |-> 0, sent_at |-> 0,
              waited |-> FALSE, slept |-> 0, status |-> "none",
              transient |-> TRUE]

NoJob == [status |-> "none", slept |-> 0]

\* No function evaluation is being followed.
NoArgs == [none |-> TRUE]

NoResult == [none |-> TRUE]

CallIdle ==
    /\ call_args = NoArgs
    /\ call_result = NoResult

\* No thread is followed.
NoThreads == <<>>

ThreadsIdle == threads = NoThreads

ClientIdle ==
    /\ cpc = "idle"
    /\ outcome = "none"
    /\ clock = 0
    /\ last_request_time = 0
    /\ retries = 0
    /\ url = 0
    /\ all_results = <<>>
    /\ pages = NoPages
    /\ net = NoTraffic
    /\ job = NoJob

\* A key of RareAgentState that is absent from the update a node returns
\* keeps its value (the state declares no reducer).
absent_key_mut(value) == <<>>

absent_key(value) == value

\* The unconditional edges of build_graph.
add_edge_mut(node) ==
    IF node = "explorer" THEN "proponent"
    ELSE IF node = "proponent" THEN "validator"
    ELSE "validator"

add_edge(node) ==
    IF node = "explorer" THEN "proponent"
    ELSE IF node = "proponent" THEN "skeptic"
    ELSE "validator"

\* run_research: the initial state, entry point explorer.
Init ==
    /\ pc = "explorer"
    /\ current_disease \in Diseases
    /\ genetic_targets = <<>>
    /\ evidence = <<>>
    /\ hypotheses = <<>>
    /\ debate_history = <<>>
    /\ retry_count = 0
    /\ last_rejection_reason = NoReason
    /\ evaluated_drugs = <<>>
    /\ probe = <<>>
    /\ streak = 0
    /\ llm_call = "none"
    /\ lit_search = "none"
    /\ ClientIdle
    /\ CallIdle
    /\ ThreadsIdle

\* The evidence ExplorerAgent.run builds from the answer of search_pubmed:
\* one entry per uid, none if the search raised.
gathered_evidence_mut(uids, disease_name) ==
    [i \in 1..Len(uids) |->
       [source |-> "PubMed", id |-> uids[i],
        note |-> <<"Linked to ", disease_name>>]]

gathered_evidence(uids, disease_name) ==
    IF uids = PubMedRaises THEN <<>>
    ELSE [i \in 1..Len(uids) |->
            [source |-> "PubMed", id |-> uids[i],
             note |-> <<"Linked to ", disease_name>>]]

\* explorer_node, then the edge explorer -> proponent, with the two
\* lookups answering one of outcomes.
ExplorerStep(outcomes) ==
    /\ pc = "explorer"
    /\ IF current_disease = ""
       THEN /\ evidence' = <<>>
            /\ genetic_targets' = <<>>
            /\ lit_search' = "none"
       ELSE \E o \in outcomes :
            /\ evidence' = gathered_evidence(o.uids, current_disease)
            /\ genetic_targets' = o.genetic_targets
            /\ lit_search' = IF o.uids = PubMedRaises THEN "raised" ELSE "answered"
    /\ pc' = add_edge("explorer")
    /\ llm_call' = "none"
    /\ UNCHANGED <<current_disease, hypotheses, debate_history, retry_count,
                   last_rejection_reason, evaluated_drugs, probe, streak>>
    /\ UNCHANGED clientVars
    /\ UNCHANGED threadVars
    /\ UNCHANGED callVars

\* new_hypothesis of ProponentAgent.run.
NewHypothesis(p) ==
    [drug_name |-> p[1], target_gene |-> p[2], skeptic_critique |-> None,
     skeptic_safety |-> None, skeptic_verdict |-> None, cid |-> None,
     validation |-> NoValidation]

\* updated_evaluated_drugs of ProponentAgent.run.
updated_evaluated_drugs_mut(drugs, drug_name) == <<drug_name>>

updated_evaluated_drugs(drugs, drug_name) == Append(drugs, drug_name)

\* The update ProponentAgent.run returns when the proposal LLM raises:
\* {"hypotheses": current_hypotheses}.
FailedProposal_mut(current_hypotheses) == <<>>

FailedProposal(current_hypotheses) == current_hypotheses

\* The test "if not targets" of ProponentAgent.run.
no_targets_mut(targets) == FALSE

no_targets(targets) == targets = <<>>

\* proponent_node, then the edge proponent -> skeptic, with the LLM
\* answering one of answers; at most cap proposals succeed.
ProponentStep(answers, cap) ==
    /\ pc = "proponent"
    /\ \/ /\ no_targets(genetic_targets)
          /\ llm_call' = "none"
          /\ UNCHANGED <<hypotheses, evaluated_drugs>>
       \/ /\ ~no_targets(genetic_targets)
          /\ \E a \in answers :
               IF a = ProposalRaises
               THEN /\ llm_call' = "raised"
                    /\ hypotheses' = FailedProposal(hypotheses)
                    /\ UNCHANGED evaluated_drugs
               ELSE /\ Len(hypotheses) < cap
                    /\ llm_call' = "answered"
                    /\ hypotheses' = Append(hypotheses, NewHypothesis(a))
                    /\ evaluated_drugs' = updated_evaluated_drugs(evaluated_drugs, a[1])
    /\ pc' = add_edge("proponent")
    /\ UNCHANGED <<current_disease, lit_search>>
    /\ genetic_targets' = absent_key(genetic_targets)
    /\ evidence' = absent_key(evidence)
    /\ UNCHANGED <<debate_history, retry_count, last_rejection_reason, probe,
                   streak>>
    /\ UNCHANGED clientVars
    /\ UNCHANGED threadVars
    /\ UNCHANGED callVars

\* Truthiness of latest_hypothesis.get("skeptic_verdict").
Truthy_mut(v) == v = "SAFE"

Truthy(v) == v # None /\ v # ""

\* critique_entry of SkepticAgent.run.
CritiqueEntry(drug, v) ==
    <<"### Skeptic Critique: ", drug, "**Verdict**: ", v,
      "**Safety Concerns**: ", "safety", "**Analysis**: ", "critique">>

\* skeptic_node, then the edge skeptic -> validator, with the LLM answering
\* one of answers.
SkepticStep(answers) ==
    /\ pc = "skeptic"
    /\ \/ /\ hypotheses = <<>>
          /\ llm_call' = "none"
          /\ UNCHANGED <<hypotheses, debate_history>>
       \/ /\ hypotheses # <<>>
          /\ Truthy(hypotheses[Len(hypotheses)].skeptic_verdict)
          /\ llm_call' = "none"
          /\ UNCHANGED <<hypotheses, debate_history>>
       \/ /\ hypotheses # <<>>
          /\ ~Truthy(hypotheses[Len(hypotheses)].skeptic_verdict)
          /\ \E v \in answers :
               IF v = CritiqueRaises
               THEN /\ llm_call' = "raised"
                    /\ UNCHANGED <<hypotheses, debate_history>>
               ELSE /\ llm_call' = "answered"
                    /\ hypotheses' = [hypotheses EXCEPT ![Len(hypotheses)] =
                          [@ EXCEPT !.skeptic_critique = "critique",
                                    !.skeptic_safety = "safety",
                                    !.skeptic_verdict = v]]
                    /\ debate_history' = Append(debate_history,
                          CritiqueEntry(hypotheses[Len(hypotheses)].drug_name, v))
    /\ pc' = add_edge("skeptic")
    /\ UNCHANGED <<current_disease, lit_search>>
    /\ genetic_targets' = absent_key(genetic_targets)
    /\ evidence' = absent_key(evidence)
    /\ UNCHANGED <<retry_count, last_rejection_reason, evaluated_drugs, probe,
                   streak>>
    /\ UNCHANGED clientVars
    /\ UNCHANGED threadVars
    /\ UNCHANGED callVars

\* validator_node, then the conditional edge should_continue, with the
\* lookups for each hypothesis answering one of answers.
\* validated_hypotheses of ValidatorAgent.run: every branch of the loop body
\* appends its hypothesis and goes on to the next one.
validated_hypotheses_mut(run) ==
    LET rejected == {i \in 1..Len(run) :
                       run[i].hyp.validation.overall_status = "REJECTED"}
    IN  IF rejected = {} THEN [i \in 1..Len(run) |-> run[i].hyp]
        ELSE [i \in 1..(CHOOSE m \in rejected : \A k \in rejected : m <= k) |->
                 run[i].hyp]

validated_hypotheses(run) == [i \in 1..Len(run) |-> run[i].hyp]

ValidatorStep(answers) ==
    /\ pc = "validator"
    /\ \E env \in [1..Len(hypotheses) -> answers] :
         LET run == [i \in 1..Len(hypotheses) |->
                        ValidateTrace(hypotheses[i], current_disease, env[i])]
             validated == validated_hypotheses(run)
         IN  /\ hypotheses' = validated
             /\ retry_count' = RetryAfter(validated, retry_count)
             /\ last_rejection_reason' = ReasonAfter(validated)
             /\ probe' = [i \in 1..Len(hypotheses) |->
                            [lookups |-> run[i].lookups, raised |-> RaisedOf(env[i])]]
             /\ streak' = StreakAfter(validated, streak)
             /\ pc' = should_continue(validated, RetryAfter(validated, retry_count))
    /\ llm_call' = "none"
    /\ UNCHANGED <<current_disease, lit_search>>
    /\ genetic_targets' = absent_key(genetic_targets)
    /\ evidence' = absent_key(evidence)
    /\ UNCHANGED <<debate_history, evaluated_drugs>>
    /\ UNCHANGED clientVars
    /\ UNCHANGED threadVars
    /\ UNCHANGED callVars

(* ---- the graph with every answer of the collaborators, few hypotheses ---- *)

ExplorerRun == ExplorerStep(ExplorerOutcomes)

ProponentRun == ProponentStep(Proposals \cup {ProposalRaises}, MaxHyps)

SkepticRun == SkepticStep(Verdicts \cup {CritiqueRaises})

ValidatorRun == ValidatorStep(EnvAnswers)

Next == ExplorerRun \/ ProponentRun \/ SkepticRun \/ ValidatorRun

Spec == Init /\ [][Next]_vars

\* The graph runner always executes the node that is due.
FairSpec == Spec /\ WF_vars(Next)

(* ---- the graph with few answers of the collaborators, many hypotheses ---- *)

\* The same steps under a narrower choice of answers, so that runs with up
\* to MaxLongHyps distinct hypotheses are explored: the explorer finds a
\* target, the proposal LLM names one drug or raises, the critique LLM says
\* RISKY, and each validation either passes every check or finds no
\* compound.
LongOutcomes == {[uids |-> <<"1">>, genetic_targets |-> <<"CFTR">>]}

LongProposals == {<<"Ivacaftor", "CFTR">>, ProposalRaises}

LongVerdicts == {"RISKY"}

LongAnswers ==
    { e \in EnvAnswers :
        \/ e.pubchem = "none"
        \/ e.pubchem = "cid" /\ e.uniprot = "entry" /\ e.link = "linked" }

LongExplorer == ExplorerStep(LongOutcomes)

LongProponent == ProponentStep(LongProposals, MaxLongHyps)

LongSkeptic == SkepticStep(LongVerdicts)

LongValidator == ValidatorStep(LongAnswers)

LongNext == LongExplorer \/ LongProponent \/ LongSkeptic \/ LongValidator

LongSpec == Init /\ [][LongNext]_vars


(* ---- the graph with every answer of the LLM, few answers of the lookups ---- *)

\* Every proposal and verdict (and their failures), while each validation
\* either passes every check or finds no compound.
DebateExplorer == ExplorerStep(LongOutcomes)

DebateProponent == ProponentStep(Proposals \cup {ProposalRaises}, MaxHyps)

DebateSkeptic == SkepticStep(Verdicts \cup {CritiqueRaises})

DebateValidator == ValidatorStep(LongAnswers)

DebateNext == DebateExplorer \/ DebateProponent \/ DebateSkeptic \/ DebateValidator

DebateSpec == Init /\ [][DebateNext]_vars

(* ---- the graph with every outcome of Gathering, few answers otherwise ---- *)

\* Every outcome of the explorer's lookups (uids, no uids, the literature
\* search raising; targets or none), while the proposal LLM names one drug
\* or raises, the critique LLM says RISKY and each validation either
\* passes every check or finds no compound.
GatherExplorer == ExplorerStep(ExplorerOutcomes)

GatherProponent == ProponentStep(LongProposals, MaxHyps)

GatherSkeptic == SkepticStep(LongVerdicts)

GatherValidator == ValidatorStep(LongAnswers)

GatherNext == GatherExplorer \/ GatherProponent \/ GatherSkeptic \/ GatherValidator

GatherSpec == Init /\ [][GatherNext]_vars

(* ---- the graph with every answer of the lookups, few answers of the LLM ---- *)

\* Every answer of the validator's lookups (found, not found, raising),
\* while the proposal LLM names one drug or raises and the critique LLM
\* says RISKY.
LookupExplorer == ExplorerStep(LongOutcomes)

LookupProponent == ProponentStep(LongProposals, MaxHyps)

LookupSkeptic == SkepticStep(LongVerdicts)

LookupValidator == ValidatorStep(EnvAnswers)

LookupNext == LookupExplorer \/ LookupProponent \/ LookupSkeptic \/ LookupValidator

LookupSpec == Init /\ [][LookupNext]_vars

(* ------------------------- the service adapters ------------------------ *)

\* The graph is not running while a call into an adapter is followed.
GraphIdle ==
    /\ pc = "off"
    /\ current_disease = ""
    /\ genetic_targets = <<>>
    /\ evidence = <<>>
    /\ hypotheses = <<>>
    /\ debate_history = <<>>
    /\ retry_count = 0
    /\ last_rejection_reason = NoReason
    /\ evaluated_drugs = <<>>
    /\ probe = <<>>
    /\ streak = 0
    /\ llm_call = "none"
    /\ lit_search = "none"

\* Time is counted in ticks of a quarter of a second; a response, and the
\* caller between two calls, take up to MaxLatency ticks.
TicksPerSecond == 4

MaxLatency == 1

\* time.time() when the first call is made, long after the epoch.
Epoch == 8

(* ---- PubChemAPI._make_request ---- *)

\* Calls of _make_request followed on one PubChemAPI instance.
MaxCalls == 2

\* self.min_interval = 0.25 seconds, in ticks.
min_interval == 1

max_retries == 5

backoff_factor == 2

\* What one request can end in: a good response, a rate-limit or
\* service-unavailable status, another error status (raise_for_status
\* raises HTTPError), or a transport failure.
Responses == {"200", "429", "503", "404", "transport"}

RECURSIVE Pow(_, _)
Pow(b, k) == IF k = 0 THEN 1 ELSE b * Pow(b, k - 1)

\* wait_time = backoff_factor ** retries seconds, in ticks.
wait_time(k) == TicksPerSecond * Pow(backoff_factor, k)

\* _wait_for_rate_limit entered at time now: the time at which it returns
\* and which it stores in last_request_time.
wait_for_rate_limit(now, last) ==
    IF now - last < min_interval THEN now + (min_interval - (now - last))
    ELSE now

\* Condition of the while loop of _make_request.
while_condition_mut(k) == k <= max_retries

while_condition(k) == k < max_retries

\* The adapter as constructed, before any call.
PubChemInit ==
    /\ GraphIdle
    /\ ThreadsIdle
    /\ CallIdle
    /\ cpc = "idle"
    /\ outcome = "none"
    /\ clock = Epoch
    /\ last_request_time = 0
    /\ retries = 0
    /\ url = 0
    /\ all_results = <<>>
    /\ pages = NoPages
    /\ net = NoTraffic
    /\ job = NoJob

\* Entry of _make_request: retries = 0.
PubChemCall ==
    /\ cpc \in {"idle", "done"}
    /\ net.calls < MaxCalls
    /\ \E gap \in 0..MaxLatency : clock' = clock + gap
    /\ cpc' = "request"
    /\ outcome' = "pending"
    /\ retries' = 0
    /\ net' = [net EXCEPT !.calls = @ + 1, !.requests = 0, !.slept = 0,
                          !.status = "none", !.transient = TRUE]
    /\ UNCHANGED <<last_request_time, url, all_results, pages, job>>
    /\ UNCHANGED graphVars
    /\ UNCHANGED threadVars
    /\ UNCHANGED callVars

\* One pass of the while loop of _make_request: the rate-limit wait, the
\* request, and what the code does with the response r that arrives after
\* l ticks.
PubChemAttempt ==
    /\ cpc = "request"
    /\ while_condition(retries)
    /\ \E r \in Responses, l \in 0..MaxLatency :
         LET sent == wait_for_rate_limit(clock, last_request_time)
             back == sent + l
             limited == r \in {"429", "503"}
             failed == r \in {"404", "transport"}
             reraise == failed /\ retries = max_retries - 1
             sleeps == limited \/ (failed /\ ~reraise)
         IN  /\ last_request_time' = sent
             /\ net' = [net EXCEPT !.total = @ + 1, !.requests = @ + 1,
                                   !.sent_at = sent, !.waited = TRUE,
                                   !.slept = IF sleeps THEN wait_time(retries) ELSE 0,
                                   !.status = r,
                                   !.transient = @ /\ r \in {"429", "503", "transport"}]
             /\ clock' = IF sleeps THEN back + wait_time(retries) ELSE back
             /\ retries' = IF sleeps THEN retries + 1 ELSE retries
             /\ IF r = "200"
                THEN cpc' = "done" /\ outcome' = "response"
                ELSE IF reraise
                THEN cpc' = "done" /\ outcome' = "raised"
                ELSE IF while_condition(retries + 1)
                THEN cpc' = "request" /\ outcome' = "pending"
                ELSE cpc' = "done" /\ outcome' = "None"
    /\ UNCHANGED <<url, all_results, pages, job>>
    /\ UNCHANGED graphVars
    /\ UNCHANGED threadVars
    /\ UNCHANGED callVars

PubChemNext == PubChemCall \/ PubChemAttempt

PubChemSpec == PubChemInit /\ [][PubChemNext]_vars

(* ---- UniProtAPI.get_uniprot_data ---- *)

\* Pages a server holds for one query, and results on one page.
MaxPages == 3

MaxPageSize == 2

\* url is the number of the page it locates; None once no page follows.
NoUrl == 0

FirstUrl == 1

\* A JSON payload without the "results" field, and response headers
\* without the "link" field.
NoField == [messages |-> <<>>]

NoHeader == [server |-> "uniprot"]

\* The results of page i when it holds s of them.
PageItems(i, s) == [k \in 1..s |-> <<i, k>>]

\* The "link" header of page i of n, as the list of its comma-separated
\* entries: none on the last page and a rel="next" entry before it
\* ("bare"), or with a rel="prev" entry in front wherever there is a
\* previous page ("both").
LinkStyles == {"bare", "both"}

LinkHeader(i, n, style) ==
    LET prev == IF style = "both" /\ i > 1
                THEN <<[target |-> i - 1, rel |-> "prev"]>> ELSE <<>>
        next == IF i < n THEN <<[target |-> i + 1, rel |-> "next"]>> ELSE <<>>
    IN  IF prev \o next = <<>> THEN NoHeader ELSE [link |-> prev \o next]

\* What a server can hold: a chain of 1..MaxPages pages, each with up to
\* MaxPageSize results or with a payload that lacks the field.
PageChains ==
    UNION { { [i \in 1..n |-> [data |-> IF i \in bad THEN NoField
                                         ELSE [results |-> PageItems(i, s[i])],
                               headers |-> LinkHeader(i, n, style)]] :
                s \in [1..n -> 0..MaxPageSize], bad \in SUBSET (1..n) } :
            n \in 1..MaxPages, style \in LinkStyles }

\* _get_next_link: the target of the first entry with rel="next".
get_next_link(headers) ==
    IF "link" \notin DOMAIN headers THEN NoUrl
    ELSE LET links == headers.link
             nexts == {k \in 1..Len(links) : links[k].rel = "next"}
         IN  IF nexts = {} THEN NoUrl
             ELSE links[CHOOSE k \in nexts : \A m \in nexts : k <= m].target

\* if "results" in data: all_results.extend(data["results"]).
extend_results_mut(results, data) ==
    IF "results" \in DOMAIN data THEN data.results ELSE results

extend_results(results, data) ==
    IF "results" \in DOMAIN data THEN results \o data.results ELSE results

\* except RequestException: break, then return all_results.
after_request_error_mut(results) == <<>>

after_request_error(results) == results

\* One pass of the loop "while url:": the request for the page at url,
\* sent at once, answered after l ticks with the page or with a failure
\* (an error status or a transport failure, both RequestException).
FetchPage ==
    /\ cpc = "fetch"
    /\ url # NoUrl
    /\ \E ok \in BOOLEAN, l \in 0..MaxLatency :
         /\ net' = [net EXCEPT !.total = @ + 1, !.requests = @ + 1,
                               !.sent_at = clock, !.waited = FALSE,
                               !.status = IF ok THEN "200" ELSE "error",
                               !.transient = @ /\ ~ok]
         /\ clock' = clock + l
         /\ IF ok
            THEN /\ all_results' = extend_results(all_results, pages[url].data)
                 /\ url' = get_next_link(pages[url].headers)
                 /\ IF get_next_link(pages[url].headers) = NoUrl
                    THEN cpc' = "done" /\ outcome' = "results"
                    ELSE UNCHANGED <<cpc, outcome>>
            ELSE /\ cpc' = "done"
                 /\ outcome' = "results"
                 /\ all_results' = after_request_error(all_results)
                 /\ UNCHANGED url
    /\ UNCHANGED <<last_request_time, retries, pages, job>>
    /\ UNCHANGED graphVars
    /\ UNCHANGED threadVars
    /\ UNCHANGED callVars

\* Entry of get_uniprot_data(query, "json") against a server holding one
\* of the page chains.
UniProtInit ==
    /\ GraphIdle
    /\ ThreadsIdle
    /\ CallIdle
    /\ cpc = "fetch"
    /\ outcome = "pending"
    /\ clock = Epoch
    /\ last_request_time = 0
    /\ retries = 0
    /\ url = FirstUrl
    /\ all_results = <<>>
    /\ pages \in PageChains
    /\ net = NoTraffic
    /\ job = NoJob

UniProtFetch == FetchPage

UniProtNext == UniProtFetch

UniProtSpec == UniProtInit /\ [][UniProtNext]_vars

(* ---- UniProtAPI.get_id_mapping_results ---- *)

\* time.sleep(2) between two polls, in seconds.
poll_sleep == 2

\* A status payload without the "jobStatus" field.
NoJobStatus == "absent"

\* What one request to the status endpoint can end in: a payload with a
\* jobStatus ("PAUSED" stands for any value the code does not name), a
\* payload without one, or a failure (RequestException).
StatusAnswers ==
    {"NEW", "RUNNING", "FINISHED", "FAILED", "PAUSED", NoJobStatus, "error"}

\* What the body of "while True:" does with the status answer s.
on_status_mut(s) ==
    IF s = "error" THEN "raise"
    ELSE IF s = NoJobStatus THEN "break"
    ELSE IF s \in {"RUNNING", "NEW"} THEN "sleep"
    ELSE IF s = "FINISHED" THEN "break"
    ELSE IF s = "FAILED" THEN "break"
    ELSE "continue"

on_status(s) ==
    IF s = "error" THEN "raise"
    ELSE IF s = NoJobStatus THEN "break"
    ELSE IF s \in {"RUNNING", "NEW"} THEN "sleep"
    ELSE IF s = "FINISHED" THEN "break"
    ELSE IF s = "FAILED" THEN "raise"
    ELSE "continue"

\* Entry of get_id_mapping_results(job_id) against a server holding one
\* of the page chains as the results of the job.
IdMapInit ==
    /\ GraphIdle
    /\ ThreadsIdle
    /\ CallIdle
    /\ cpc = "poll"
    /\ outcome = "pending"
    /\ clock = Epoch
    /\ last_request_time = 0
    /\ retries = 0
    /\ url = NoUrl
    /\ all_results = <<>>
    /\ pages \in PageChains
    /\ net = NoTraffic
    /\ job = NoJob

\* One pass of the loop "while True:": a request to the status endpoint
\* and the branch taken on its answer.  The time spent polling is kept in
\* job.slept, not on the clock.
IdMapPoll ==
    /\ cpc = "poll"
    /\ \E s \in StatusAnswers :
         /\ job' = [status |-> s,
                    slept |-> IF on_status(s) = "sleep" THEN poll_sleep ELSE 0]
         /\ IF on_status(s) = "raise"
            THEN cpc' = "done" /\ outcome' = "raised" /\ UNCHANGED url
            ELSE IF on_status(s) = "break"
            THEN cpc' = "fetch" /\ url' = FirstUrl /\ UNCHANGED outcome
            ELSE UNCHANGED <<cpc, outcome, url>>
    /\ UNCHANGED <<clock, last_request_time, retries, all_results, pages, net>>
    /\ UNCHANGED graphVars
    /\ UNCHANGED threadVars
    /\ UNCHANGED callVars

\* One pass of the results loop "while url:".
IdMapFetch == FetchPage

IdMapNext == IdMapPoll \/ IdMapFetch

IdMapSpec == IdMapInit /\ [][IdMapNext]_vars

\* The interpreter always executes the statement that is due.
IdMapFairSpec == IdMapSpec /\ WF_vars(IdMapNext)

(* ---- ValidatorAgent._step_5_verify_disease_link ---- *)

\* Texts are sequences of characters of a small alphabet: a letter in two
\* cases, a second letter, the apostrophe and the blank.
Alphabet == {"a", "A", "b", "'", " "}

\* Longest subject handed to the check.
MaxSubjectLen == 2

RECURSIVE TextsUpTo(_)
TextsUpTo(n) ==
    IF n = 0 THEN {<<>>}
    ELSE TextsUpTo(n - 1) \cup
         { Append(t, c) : t \in { u \in TextsUpTo(n - 1) : Len(u) = n - 1 },
                          c \in Alphabet }

Subjects == TextsUpTo(MaxSubjectLen)

\* Texts a UniProt entry holds in a field; the empty text is also what the
\* code reads for a field that is missing.
FieldTexts == {<<>>, <<"b">>, <<"A", "'", "b">>}

\* The "disease" object of a comment, missing or empty.
NoDisease == [empty |-> TRUE]

DiseaseObjects ==
    {NoDisease} \cup
    [diseaseId : FieldTexts, description : FieldTexts, acronym : FieldTexts]

DiseaseComments ==
    [commentType : {"DISEASE"}, note : FieldTexts, disease : DiseaseObjects]

\* A comment of another type whose texts would match, and a disease comment
\* whose texts match nothing.
OtherComment ==
    [commentType |-> "FUNCTION", note |-> <<"A", "'", "b">>,
     disease |-> [diseaseId |-> <<"b">>, description |-> <<"b">>,
                  acronym |-> <<"b">>]]

UnrelatedComment ==
    [commentType |-> "DISEASE", note |-> <<>>,
     disease |-> [diseaseId |-> <<"c", "c", "c">>, description |-> <<>>,
                  acronym |-> <<"c", "c", "c">>]]

CommentLists ==
    {<<>>, <<OtherComment>>}
    \cup { <<c>> : c \in DiseaseComments }
    \cup { <<UnrelatedComment, c>> : c \in DiseaseComments }

UniProtEntries == [comments : CommentLists, recommendedName : FieldTexts]

\* str.lower() on the alphabet.
lower_char(c) == IF c = "A" THEN "a" ELSE c

lower(t) == [i \in 1..Len(t) |-> lower_char(t[i])]

NotApostrophe(c) == c # "'"

\* t.lower().replace("'", "").
clean(t) == SelectSeq(lower(t), NotApostrophe)

\* str.strip().
RECURSIVE strip(_)
strip(t) ==
    IF t = <<>> THEN t
    ELSE IF Head(t) = " " THEN strip(Tail(t))
    ELSE IF t[Len(t)] = " " THEN strip(SubSeq(t, 1, Len(t) - 1))
    ELSE t

\* Python's "s in t" on texts.
in_text(s, t) ==
    \E i \in 0..(Len(t) - Len(s)) : SubSeq(t, i + 1, i + Len(s)) = s

\* The test of one comment in the loop of _step_5_verify_disease_link.
comment_matches(comment, search_term) ==
    /\ comment.commentType = "DISEASE"
    /\ \/ in_text(search_term, clean(comment.note))
       \/ /\ comment.disease # NoDisease
          /\ LET db_disease_name == clean(comment.disease.diseaseId)
                 db_disease_desc == clean(comment.disease.description)
                 db_disease_acr == clean(comment.disease.acronym)
             IN  \/ in_text(search_term, db_disease_name)
                 \/ in_text(db_disease_name, search_term)
                 \/ in_text(search_term, db_disease_desc)
                 \/ in_text(search_term, db_disease_acr)
                 \/ in_text(db_disease_acr, search_term)

step_5_verify_disease_link(uniprot_entry, disease_name) ==
    IF disease_name = <<>> THEN FALSE
    ELSE LET search_term == strip(clean(disease_name))
         IN  \/ \E i \in 1..Len(uniprot_entry.comments) :
                    comment_matches(uniprot_entry.comments[i], search_term)
             \/ in_text(search_term, clean(uniprot_entry.recommendedName))

\* A subject and a resolved protein entry are handed to the check.
LinkInit ==
    /\ GraphIdle
    /\ ThreadsIdle
    /\ ClientIdle
    /\ call_args \in [disease_name : Subjects, uniprot_entry : UniProtEntries]
    /\ call_result = NoResult

VerifyLink ==
    /\ call_result = NoResult
    /\ call_result' = [value |-> step_5_verify_disease_link(
                                    call_args.uniprot_entry, call_args.disease_name)]
    /\ UNCHANGED call_args
    /\ UNCHANGED graphVars
    /\ UNCHANGED threadVars
    /\ UNCHANGED clientVars

LinkNext == VerifyLink

LinkSpec == LinkInit /\ [][LinkNext]_vars

(* ---- NCBIEntrezAPI.fetch_details ---- *)

\* Largest total the search reports, and largest page size asked for.
MaxCount == 5

MaxRetmax == 2

\* time.sleep(0.34) after a page, in hundredths of a second.
page_sleep == 34

\* response.text of the page that starts at offset retstart.
PagePayload(retstart) == <<"xml", retstart>>

\* Entry of fetch_details(history, retmax) with count records reported;
\* url holds retstart, the offset of the page that is due, all_results
\* the list results.
EntrezInit ==
    /\ GraphIdle
    /\ ThreadsIdle
    /\ cpc = "window"
    /\ outcome = "pending"
    /\ clock = Epoch
    /\ last_request_time = 0
    /\ retries = 0
    /\ url = 0
    /\ all_results = <<>>
    /\ pages = NoPages
    /\ net = NoTraffic
    /\ job = NoJob
    /\ call_args \in [count : 0..MaxCount, retmax : 1..MaxRetmax]
    /\ call_result = NoResult

\* One pass of "for retstart in range(0, count, retmax)": the request for
\* the page at retstart, answered with the page or with a failure
\* (RequestException), and the step to the next offset in both cases.
EntrezFetch ==
    /\ cpc = "window"
    /\ url < call_args.count
    /\ \E ok \in BOOLEAN :
         /\ net' = [net EXCEPT !.total = @ + 1, !.requests = @ + 1,
                               !.sent_at = url, !.waited = FALSE,
                               !.slept = IF ok THEN page_sleep ELSE 0,
                               !.status = IF ok THEN "200" ELSE "error",
                               !.transient = @ /\ ~ok]
         /\ all_results' = IF ok THEN Append(all_results, PagePayload(url))
                           ELSE all_results
    /\ url' = url + call_args.retmax
    /\ UNCHANGED <<cpc, outcome, clock, last_request_time, retries, pages, job>>
    /\ UNCHANGED graphVars
    /\ UNCHANGED threadVars
    /\ UNCHANGED callVars

\* The range is exhausted: return results.
EntrezReturn ==
    /\ cpc = "window"
    /\ url >= call_args.count
    /\ cpc' = "done"
    /\ outcome' = "results"
    /\ UNCHANGED <<clock, last_request_time, retries, url, all_results, pages,
                   net, job>>
    /\ UNCHANGED graphVars
    /\ UNCHANGED threadVars
    /\ UNCHANGED callVars

EntrezNext == EntrezFetch \/ EntrezReturn

EntrezSpec == EntrezInit /\ [][EntrezNext]_vars

(* ---- the graph with one proposal and one verdict, more than five passes ---- *)

\* Passes of the loop followed when the hypotheses are counted.
MaxManyHyps == 6

ManyProposals == {<<"Ivacaftor", "CFTR">>}

ManyExplorer == ExplorerStep(LongOutcomes)

ManyProponent == ProponentStep(ManyProposals, MaxManyHyps)

ManySkeptic == SkepticStep(LongVerdicts)

ManyValidator == ValidatorStep(LongAnswers)

ManyNext == ManyExplorer \/ ManyProponent \/ ManySkeptic \/ ManyValidator

ManySpec == Init /\ [][ManyNext]_vars

(* ---- PubChemAPI._wait_for_rate_limit called from two threads ---- *)

\* Two workflow runs, each in a thread of its own, use the module-level
\* agents of orchestrator.py and so one PubChemAPI instance.
Threads == {"run1", "run2"}

\* Ticks of the clock followed after the first call.
MaxTicks == 3

\* Locals of a thread that has not entered _wait_for_rate_limit yet.
NoLocals == [tpc |-> "idle", current_time |-> 0, elapsed |-> 0, wake |-> 0,
             calls |-> 0, sent |-> <<>>]

\* The adapter as constructed, both threads before their first call.
LimiterInit ==
    /\ GraphIdle
    /\ CallIdle
    /\ cpc = "idle"
    /\ outcome = "none"
    /\ clock = Epoch
    /\ last_request_time = 0
    /\ retries = 0
    /\ url = 0
    /\ all_results = <<>>
    /\ pages = NoPages
    /\ net = NoTraffic
    /\ job = NoJob
    /\ threads = [t \in Threads |-> NoLocals]

\* What a step of one thread leaves alone.
LimiterFrame ==
    /\ UNCHANGED <<cpc, outcome, retries, url, all_results, pages, net, job>>
    /\ UNCHANGED graphVars
    /\ UNCHANGED callVars

\* Thread t enters _wait_for_rate_limit before a request.
LimiterEnter(t) ==
    /\ threads[t].tpc = "idle"
    /\ threads[t].calls < MaxCalls
    /\ threads' = [threads EXCEPT ![t].tpc = "time", ![t].calls = @ + 1]
    /\ UNCHANGED <<clock, last_request_time>>
    /\ LimiterFrame

\* current_time = time.time()
LimiterTime(t) ==
    /\ threads[t].tpc = "time"
    /\ threads' = [threads EXCEPT ![t].tpc = "elapsed", ![t].current_time = clock]
    /\ UNCHANGED <<clock, last_request_time>>
    /\ LimiterFrame

\* elapsed = current_time - self.last_request_time, the test of elapsed
\* and, when it is short, the call of time.sleep(min_interval - elapsed).
LimiterElapsed(t) ==
    /\ threads[t].tpc = "elapsed"
    /\ LET elapsed == threads[t].current_time - last_request_time
       IN  threads' = [threads EXCEPT
                         ![t].elapsed = elapsed,
                         ![t].wake = IF elapsed < min_interval
                                     THEN clock + (min_interval - elapsed)
                                     ELSE clock,
                         ![t].tpc = IF elapsed < min_interval
                                    THEN "sleep" ELSE "stamp"]
    /\ UNCHANGED <<clock, last_request_time>>
    /\ LimiterFrame

\* time.sleep returns once the time asked for has passed.
LimiterWake(t) ==
    /\ threads[t].tpc = "sleep"
    /\ clock >= threads[t].wake
    /\ threads' = [threads EXCEPT ![t].tpc = "stamp"]
    /\ UNCHANGED <<clock, last_request_time>>
    /\ LimiterFrame

\* self.last_request_time = time.time(), and the request that follows the
\* return of _wait_for_rate_limit.
LimiterStamp(t) ==
    /\ threads[t].tpc = "stamp"
    /\ last_request_time' = clock
    /\ threads' = [threads EXCEPT ![t].tpc = "idle",
                                  ![t].sent = Append(@, clock)]
    /\ UNCHANGED clock
    /\ LimiterFrame

\* A quarter of a second passes.
LimiterTick ==
    /\ clock < Epoch + MaxTicks
    /\ clock' = clock + 1
    /\ UNCHANGED <<last_request_time, threads>>
    /\ LimiterFrame

LimiterNext ==
    \/ \E t \in Threads : LimiterEnter(t)
    \/ \E t \in Threads : LimiterTime(t)
    \/ \E t \in Threads : LimiterElapsed(t)
    \/ \E t \in Threads : LimiterWake(t)
    \/ \E t \in Threads : LimiterStamp(t)
    \/ LimiterTick

LimiterSpec == LimiterInit /\ [][LimiterNext]_vars

(* ------------------------------ claims -------------------------------- *)

Latest(hyps) == hyps[Len(hyps)]

Validated(h) == h.validation # NoValidation

IsPrefix(s, t) == Len(s) <= Len(t) /\ SubSeq(t, 1, Len(s)) = s

\* A text, as the tuple of its parts, is empty when every part is.
IsEmptyText(t) == \A k \in 1..Len(t) : t[k] = ""

\* C1: every run of the graph eventually reaches END, whatever the
\* collaborators answer.  Stated under FairSpec; the code violates it.
C1_EventuallyTerminal == <>(pc = END)

\* C2: the decision after every Validating step is END if hypotheses is
\* empty; otherwise END if the latest hypothesis is APPROVED and its verdict
\* is neither REJECT nor RISKY; otherwise proponent if retry_count < 5;
\* otherwise END.
C2_Decision ==
    [][pc = "validator" =>
        pc' = IF hypotheses' = <<>> THEN END
              ELSE IF /\ Validated(Latest(hypotheses'))
                      /\ Latest(hypotheses').validation.overall_status = "APPROVED"
                      /\ Latest(hypotheses').skeptic_verdict \notin {"REJECT", "RISKY"}
                   THEN END
              ELSE IF retry_count' < 5 THEN "proponent"
              ELSE END]_vars

C2_Witness ==
    /\ pc = "proponent"
    /\ hypotheses # <<>>
    /\ StatusOf(Latest(hypotheses)) = "APPROVED"
    /\ Latest(hypotheses).skeptic_verdict = "REJECT"

\* C3: in a run whose every Validating step rejects the latest hypothesis,
\* retry_count is 1, 2, 3, 4, 5 after the successive Validating steps, the
\* run loops back after the first four and ends after the fifth with the
\* latest hypothesis still REJECTED; there is no sixth pass.
C3_FiveRejections ==
    streak # NoStreak =>
        /\ retry_count = streak
        /\ streak <= 5
        /\ (streak < 5 => pc # END)
        /\ (streak = 5 => /\ pc = END
                          /\ StatusOf(Latest(hypotheses)) = "REJECTED")

C3_Witness ==
    /\ streak = 5
    /\ pc = END
    /\ retry_count = 5
    /\ Len(hypotheses) = 5

\* C4: a Validating step changes retry_count by +1 when the most recent
\* hypothesis is REJECTED, by 0 when it is APPROVED or when there is no
\* hypothesis, whatever the outcomes of the earlier hypotheses.
C4_Increment ==
    [][pc = "validator" =>
        retry_count' = retry_count +
            (IF hypotheses' = <<>> THEN 0
             ELSE IF Latest(hypotheses').validation.overall_status = "REJECTED" THEN 1
             ELSE 0)]_vars

C4_Witness ==
    /\ Len(hypotheses) = 2
    /\ StatusOf(hypotheses[1]) = "REJECTED"
    /\ StatusOf(hypotheses[2]) = "APPROVED"
    /\ retry_count = 0

\* C5: no hypothesis causes more than one increment of retry_count: when
\* the most recent hypothesis was already rejected by an earlier Validating
\* step, validating it again does not increment retry_count.
C5_OncePerHypothesis ==
    [][(/\ pc = "validator"
        /\ hypotheses # <<>>
        /\ StatusOf(Latest(hypotheses)) = "REJECTED")
       => retry_count' = retry_count]_vars

\* C6: whenever the decision out of Validating is to loop back to the
\* proponent, that Validating step incremented retry_count by 1 and set
\* last_rejection_reason to a present reason.
C6_LoopCarriesReason ==
    [][(pc = "validator" /\ pc' = "proponent") =>
        /\ retry_count' = retry_count + 1
        /\ last_rejection_reason' # NoReason]_vars

\* C7: in every validation report, overall_status is APPROVED exactly when
\* the four boolean checks are all true, and a REJECTED report has a
\* non-empty reason.
C7_ReportInvariant ==
    \A i \in 1..Len(hypotheses) :
        Validated(hypotheses[i]) =>
            LET r == hypotheses[i].validation
            IN  /\ r.overall_status \in {"APPROVED", "REJECTED"}
                /\ (r.overall_status = "APPROVED") <=>
                       (/\ r.step_1_cid_found
                        /\ r.step_2_target_match
                        /\ r.step_3_human_reviewed
                        /\ r.step_4_disease_link)
                /\ (r.overall_status = "REJECTED" => ~IsEmptyText(r.reason))

C7_Witness ==
    /\ Len(hypotheses) = 2
    /\ StatusOf(hypotheses[1]) = "APPROVED"
    /\ StatusOf(hypotheses[2]) = "REJECTED"
    /\ hypotheses[2].validation.reason[1] = "Error: "

\* C8: the checks run in the order compound, target, disease link and stop
\* at the first failing one: the lookups issued are a prefix of that order
\* ending at the first failure, later booleans stay false, an unresolved
\* compound gives REJECTED with all four booleans false and no protein
\* lookup, and a resolved target without disease match gives REJECTED with
\* the first three booleans true and a reason naming the target gene.
C8_OrderedShortCircuit ==
    \A i \in 1..Len(probe) :
        LET h == hypotheses[i]
            r == h.validation
            l == probe[i].lookups
        IN  /\ IsPrefix(l, <<"pubchem", "uniprot", "disease_link">>)
            /\ (r.step_4_disease_link => r.step_3_human_reviewed)
            /\ (r.step_3_human_reviewed => r.step_1_cid_found)
            /\ (~r.step_1_cid_found =>
                   /\ l = <<"pubchem">>
                   /\ r.overall_status = "REJECTED"
                   /\ ~r.step_2_target_match
                   /\ ~r.step_3_human_reviewed
                   /\ ~r.step_4_disease_link)
            /\ (r.step_1_cid_found /\ ~r.step_3_human_reviewed =>
                   /\ l = <<"pubchem", "uniprot">>
                   /\ ~r.step_2_target_match
                   /\ ~r.step_4_disease_link)
            /\ (Len(l) = 3 /\ ~r.step_4_disease_link /\ probe[i].raised = "none" =>
                   /\ r.overall_status = "REJECTED"
                   /\ r.step_1_cid_found
                   /\ r.step_2_target_match
                   /\ r.step_3_human_reviewed
                   /\ \E k \in 1..Len(r.reason) : r.reason[k] = h.target_gene)

C8_Witness ==
    /\ Len(probe) = 2
    /\ probe[1].lookups = <<"pubchem">>
    /\ ~hypotheses[1].validation.step_1_cid_found
    /\ Len(probe[2].lookups) = 3
    /\ probe[2].raised = "none"
    /\ hypotheses[2].validation.step_3_human_reviewed
    /\ ~hypotheses[2].validation.step_4_disease_link

\* C9: when a lookup of the validator pipeline raises, the hypothesis is
\* REJECTED with a reason that is an error message recording the failure.
C9_ErrorsRecorded ==
    \A i \in 1..Len(probe) :
        probe[i].raised # "none" =>
            /\ hypotheses[i].validation.overall_status = "REJECTED"
            /\ hypotheses[i].validation.reason[1] = "Error: "

\* C10: evaluated_drugs only grows: after every step its previous value is
\* a prefix of its new value.
C10_DrugsOnlyGrow == [][IsPrefix(evaluated_drugs, evaluated_drugs')]_vars

C10_Witness ==
    /\ pc = "proponent"
    /\ evaluated_drugs = <<"Ivacaftor", "Aspirin">>

NoDuplicate(s) == \A i, j \in 1..Len(s) : s[i] = s[j] => i = j

DrugNames(hyps) == [i \in 1..Len(hyps) |-> hyps[i].drug_name]

\* C11: whatever the proposal LLM answers, evaluated_drugs holds no drug
\* name twice, and no two hypotheses name the same drug.
C11_NoDuplicateDrugs ==
    /\ NoDuplicate(evaluated_drugs)
    /\ NoDuplicate(DrugNames(hypotheses))

\* C12: a critique step that finds a verdict on the most recent hypothesis
\* makes no LLM call and changes neither debate_history nor any hypothesis,
\* however often it is invoked.
C12_CritiqueIdempotent ==
    [][(/\ pc = "skeptic"
        /\ hypotheses # <<>>
        /\ Latest(hypotheses).skeptic_verdict # None)
       => /\ llm_call' = "none"
          /\ debate_history' = debate_history
          /\ hypotheses' = hypotheses]_vars

\* A second critique step has run on a hypothesis that already had its
\* verdict (the proposal in between failed), and the debate has one entry.
C12_Witness ==
    /\ pc = "validator"
    /\ llm_call = "none"
    /\ retry_count = 1
    /\ Len(hypotheses) = 1
    /\ hypotheses[1].skeptic_verdict = "REJECT"
    /\ StatusOf(hypotheses[1]) = "REJECTED"
    /\ Len(debate_history) = 1

\* A hypothesis without the two fields the validator writes.
SansValidation(h) == [h EXCEPT !.validation = NoValidation, !.cid = None]

\* A hypothesis without the three fields the skeptic writes.
SansCritique(h) ==
    [h EXCEPT !.skeptic_critique = None, !.skeptic_safety = None,
              !.skeptic_verdict = None]

\* C13 (as stated): a Validating step leaves every hypothesis before the
\* most recent one as it was, its validation report included.
C13_EarlierUntouched ==
    [][pc = "validator" =>
         \A i \in 1..(Len(hypotheses) - 1) : hypotheses'[i] = hypotheses[i]]_vars

\* C13 (amended): a critique step changes the critique, safety concerns and
\* verdict of the most recent hypothesis only; a Validating step writes the
\* validation report of every hypothesis of the list, earlier ones
\* included, and changes nothing but validation and cid; neither step
\* changes the length of the list.
C13_StepFrames ==
    [][/\ pc = "skeptic" =>
            /\ Len(hypotheses') = Len(hypotheses)
            /\ \A i \in 1..Len(hypotheses) :
                 IF i = Len(hypotheses)
                 THEN SansCritique(hypotheses'[i]) = SansCritique(hypotheses[i])
                 ELSE hypotheses'[i] = hypotheses[i]
       /\ pc = "validator" =>
            /\ Len(hypotheses') = Len(hypotheses)
            /\ \A i \in 1..Len(hypotheses) :
                 /\ Validated(hypotheses'[i])
                 /\ SansValidation(hypotheses'[i]) = SansValidation(hypotheses[i])]_vars

\* After three Validating steps the first hypothesis, approved when it was
\* the most recent one, carries a rejection, and the third is approved.
C13_Witness ==
    /\ Len(hypotheses) = 3
    /\ retry_count = 2
    /\ StatusOf(hypotheses[1]) = "REJECTED"
    /\ hypotheses[1].cid = "cid"
    /\ hypotheses[1].skeptic_verdict = "RISKY"
    /\ StatusOf(hypotheses[3]) = "APPROVED"

\* C14: a step whose LLM call raised hands over to the next node of the
\* graph and leaves hypotheses, debate_history, evaluated_drugs,
\* retry_count and last_rejection_reason as they were.
C14_FailureLeavesRecord ==
    [][llm_call' = "raised" =>
         /\ pc' = IF pc = "proponent" THEN "skeptic" ELSE "validator"
         /\ UNCHANGED <<hypotheses, debate_history, evaluated_drugs,
                        retry_count, last_rejection_reason>>]_vars

\* On a loop iteration with one rejected hypothesis on record the proposal
\* call has just raised.
C14_Witness ==
    /\ pc = "skeptic"
    /\ llm_call = "raised"
    /\ retry_count = 1
    /\ evaluated_drugs = <<"Aspirin">>
    /\ Len(hypotheses) = 1
    /\ hypotheses[1].skeptic_verdict = "SAFE"
    /\ Len(debate_history) = 1

\* C15: a call of _make_request whose max_retries attempts all ended in a
\* 429/503 response or a transport failure ends by raising.
C15_ExhaustionRaises ==
    (/\ cpc = "done"
     /\ net.requests = max_retries
     /\ net.transient)
    => outcome = "raised"

\* C16: any two consecutive requests through one adapter are at least the
\* minimum request interval apart.
C16_RequestsSpaced ==
    [][(net.total > 0 /\ net'.total = net.total + 1)
       => net'.sent_at - net.sent_at >= min_interval]_vars

\* The results of the first n pages, in order.
RECURSIVE Flatten(_, _)
Flatten(ps, n) ==
    IF n = 0 THEN <<>>
    ELSE Flatten(ps, n - 1) \o
         (IF ps[n].data = NoField THEN <<>> ELSE ps[n].data.results)

RECURSIVE SumOfSizes(_, _)
SumOfSizes(ps, n) ==
    IF n = 0 THEN 0
    ELSE SumOfSizes(ps, n - 1) +
         (IF ps[n].data = NoField THEN 0 ELSE Len(ps[n].data.results))

\* C17: while no fetch has failed, get_uniprot_data has requested each
\* page before the one it is at exactly once and holds their results in
\* page order; it stops only at the page without a next locator, and then
\* returns the results of all pages, s1 + ... + sn of them.
C17_CursorComplete ==
    (cpc \in {"fetch", "done"} /\ net.status # "error") =>
       /\ cpc = "fetch" =>
            /\ url \in 1..Len(pages)
            /\ net.requests = url - 1
            /\ all_results = Flatten(pages, url - 1)
       /\ cpc = "done" =>
            /\ outcome = "results"
            /\ net.requests = Len(pages)
            /\ all_results = Flatten(pages, Len(pages))
            /\ Len(all_results) = SumOfSizes(pages, Len(pages))

\* Three pages of sizes 2, 2 and 1 were fetched and five results returned.
C17_Witness ==
    /\ cpc = "done"
    /\ net.status = "200"
    /\ Len(pages) = 3
    /\ Len(pages[2].headers.link) = 2
    /\ Len(all_results) = 5
    /\ all_results[1] = <<1, 1>>
    /\ all_results[3] = <<2, 1>>
    /\ all_results[5] = <<3, 1>>

\* C18: a poll that reads NEW or RUNNING sleeps the fixed interval and stays
\* in the poll loop with no result requested; one that reads FINISHED
\* leaves the loop for the results fetch; one that reads FAILED raises with
\* no result requested.  After the loop is left no poll follows, and after
\* FINISHED the results are fetched as one cursor pagination: every page
\* before the one the fetch is at was requested once, in order.
C18_PollProtocol ==
    /\ [][cpc = "poll" =>
            /\ job'.status \in {"NEW", "RUNNING"} =>
                 /\ cpc' = "poll"
                 /\ outcome' = "pending"
                 /\ job'.slept = poll_sleep
                 /\ net'.requests = 0
            /\ job'.status = "FINISHED" =>
                 /\ cpc' = "fetch"
                 /\ url' = FirstUrl
                 /\ net'.requests = 0
            /\ job'.status = "FAILED" =>
                 /\ cpc' = "done"
                 /\ outcome' = "raised"
                 /\ net'.requests = 0]_vars
    /\ [][(cpc # "poll") => (cpc' # "poll" /\ UNCHANGED job)]_vars
    /\ [](job.status = "FINISHED" /\ net.status # "error" =>
            /\ cpc = "fetch" =>
                 /\ net.requests = url - 1
                 /\ all_results = Flatten(pages, url - 1)
            /\ cpc = "done" =>
                 /\ net.requests = Len(pages)
                 /\ all_results = Flatten(pages, Len(pages)))

\* After polling a job that finished, the three pages of its results were
\* fetched and returned.
C18_Witness ==
    /\ cpc = "done"
    /\ outcome = "results"
    /\ job.status = "FINISHED"
    /\ net.status = "200"
    /\ net.requests = 3
    /\ Len(all_results) = 4

\* C19: a status answer whose jobStatus is none of NEW, RUNNING, FINISHED
\* and FAILED, or is missing, makes get_id_mapping_results raise.
C19_UnknownStatusRaises ==
    [][(cpc = "poll" /\ job'.status \in {"PAUSED", NoJobStatus})
       => cpc' = "done" /\ outcome' = "raised"]_vars

\* C20: every call of get_id_mapping_results comes to an end, whatever the
\* status endpoint answers.
C20_PollTerminates == <>(cpc = "done")

\* The four candidate strings of a disease annotation, normalized.
Candidates(comment) ==
    {clean(comment.note), clean(comment.disease.diseaseId),
     clean(comment.disease.acronym), clean(comment.disease.description)}

\* The disease-link check as C21 states it: containment in either
\* direction against each candidate, then the recommended name.
LinkAsStated(uniprot_entry, disease_name) ==
    \/ \E i \in 1..Len(uniprot_entry.comments) :
          /\ uniprot_entry.comments[i].commentType = "DISEASE"
          /\ \E cand \in Candidates(uniprot_entry.comments[i]) :
                \/ in_text(clean(disease_name), cand)
                \/ in_text(cand, clean(disease_name))
    \/ in_text(clean(disease_name), clean(uniprot_entry.recommendedName))

\* Every comment of the entry has its four candidate strings, none empty.
FullyAnnotated(uniprot_entry) ==
    \A i \in 1..Len(uniprot_entry.comments) :
       /\ uniprot_entry.comments[i].note # <<>>
       /\ uniprot_entry.comments[i].disease # NoDisease
       /\ uniprot_entry.comments[i].disease.diseaseId # <<>>
       /\ uniprot_entry.comments[i].disease.acronym # <<>>
       /\ uniprot_entry.comments[i].disease.description # <<>>

\* A subject without blanks that is not empty once normalized.
PlainSubject(disease_name) ==
    /\ clean(disease_name) # <<>>
    /\ \A i \in 1..Len(disease_name) : disease_name[i] # " "

\* C21: for a plain subject and an entry whose annotations have all four
\* candidate strings, the check returns true exactly when the normalized
\* subject is inside, or contains, a candidate of some disease annotation,
\* or is inside the recommended name.
C21_BothDirections ==
    (/\ call_result # NoResult
     /\ "uniprot_entry" \in DOMAIN call_args
     /\ FullyAnnotated(call_args.uniprot_entry)
     /\ PlainSubject(call_args.disease_name))
    => call_result.value =
          LinkAsStated(call_args.uniprot_entry, call_args.disease_name)

\* Two subjects that differ only in letter case and apostrophes.
SameButCaseAndApostrophes(s, t) == clean(s) = clean(t)

\* C22: the check returns the same value for every subject that differs
\* from the given one only in letter case and apostrophes.
C22_CaseApostropheInsensitive ==
    (call_result # NoResult /\ "uniprot_entry" \in DOMAIN call_args) =>
       \A other \in Subjects :
          SameButCaseAndApostrophes(other, call_args.disease_name) =>
             step_5_verify_disease_link(call_args.uniprot_entry, other)
                = call_result.value

\* The offsets 0, p, 2p, ... below total, in order.
RECURSIVE Offsets(_, _, _)
Offsets(from, total, p) ==
    IF from >= total THEN <<>> ELSE <<from>> \o Offsets(from + p, total, p)

\* C23: whatever requests fail on the way, fetch_details returns one
\* payload for every offset 0, p, 2p, ... below the reported total, in
\* order: no page is skipped.
C23_EveryPageReturned ==
    ("count" \in DOMAIN call_args /\ cpc = "done") =>
       all_results = [i \in 1..Len(Offsets(0, call_args.count, call_args.retmax)) |->
                        PagePayload(Offsets(0, call_args.count, call_args.retmax)[i])]

\* C24: the run starts with Gathering, which is never entered again; each
\* step hands over to the next of Proposing, Critiquing, Validating in
\* that order; only a Validating step hands over to Proposing again or
\* ends the run, and nothing runs after the end.
C24_StepOrder ==
    /\ [](pc \in {"explorer", "proponent", "skeptic", "validator", END})
    /\ [](pc = "explorer" =>
             hypotheses = <<>> /\ debate_history = <<>> /\ retry_count = 0)
    /\ [][/\ pc' # "explorer"
          /\ pc = "explorer" => pc' = "proponent"
          /\ pc = "proponent" => pc' = "skeptic"
          /\ pc = "skeptic" => pc' = "validator"
          /\ pc = "validator" => pc' \in {"proponent", END}
          /\ pc # END]_vars

\* The run has ended after the loop was taken twice.
C24_Witness ==
    /\ pc = END
    /\ Len(hypotheses) = 2
    /\ Len(debate_history) = 2
    /\ retry_count = 1
    /\ StatusOf(hypotheses[2]) = "APPROVED"

\* C25: once Gathering has run, no step changes current_disease,
\* genetic_targets or evidence, whether its LLM call or its lookups
\* succeed or fail.
C25_GatheredFrame ==
    [][(pc # "explorer") =>
         UNCHANGED <<current_disease, genetic_targets, evidence>>]_vars

\* The run has ended after a failed proposal and a rejection, with the
\* gathered target and evidence still on record.
C25_Witness ==
    /\ pc = END
    /\ retry_count = 5
    /\ current_disease = "Cystic Fibrosis"
    /\ genetic_targets = <<"CFTR">>
    /\ Len(evidence) = 1
    /\ evidence[1].id = "1"
    /\ Len(hypotheses) = 1

\* C26: after a Validating step last_rejection_reason is the reason of the
\* report of the most recent hypothesis if that report is REJECTED, and is
\* absent if it is APPROVED or if there is no hypothesis.
C26_ReasonFollowsLatest ==
    [][pc = "validator" =>
         last_rejection_reason' =
            IF hypotheses' = <<>> THEN NoReason
            ELSE IF Latest(hypotheses').validation.overall_status = "REJECTED"
            THEN Latest(hypotheses').validation.reason
            ELSE NoReason]_vars

\* After a rejection the next hypothesis was approved with a RISKY
\* verdict: the loop goes on and the earlier reason is gone.
C26_Witness ==
    /\ pc = "proponent"
    /\ retry_count = 1
    /\ Len(hypotheses) = 2
    /\ StatusOf(hypotheses[2]) = "APPROVED"
    /\ hypotheses[2].skeptic_verdict = "RISKY"
    /\ last_rejection_reason = NoReason

\* C27: a Gathering step whose literature search raised leaves evidence
\* empty, still stores what target identification found, and hands over
\* to Proposing.
C27_SearchFailureDegrades ==
    /\ [](lit_search = "raised" => evidence = <<>> /\ pc # "explorer")
    /\ [][(pc = "explorer" /\ lit_search' = "raised") =>
            /\ pc' = "proponent"
            /\ evidence' = <<>>
            /\ genetic_targets' \in {<<>>, <<"CFTR">>}
            /\ UNCHANGED <<current_disease, hypotheses, retry_count>>]_vars

\* After a failed literature search the target CFTR was still found and a
\* hypothesis on it was proposed and validated.
C27_Witness ==
    /\ lit_search = "raised"
    /\ evidence = <<>>
    /\ genetic_targets = <<"CFTR">>
    /\ Len(hypotheses) = 1
    /\ hypotheses[1].target_gene = "CFTR"
    /\ StatusOf(hypotheses[1]) = "APPROVED"

\* C28: in every validation report the target-match boolean equals the
\* human-reviewed boolean, and the report is APPROVED exactly when the
\* compound was found, the target resolved and the disease linked.
C28_PlausibilityNeverDecides ==
    \A i \in 1..Len(hypotheses) :
       Validated(hypotheses[i]) =>
          LET r == hypotheses[i].validation
          IN  /\ r.step_2_target_match = r.step_3_human_reviewed
              /\ (r.overall_status = "APPROVED") <=>
                    (r.step_1_cid_found /\ r.step_3_human_reviewed
                       /\ r.step_4_disease_link)

\* One report stops at target resolution (compound found, target not
\* resolved, both booleans false); the other passes it and is approved.
C28_Witness ==
    /\ Len(hypotheses) = 2
    /\ Validated(hypotheses[1])
    /\ hypotheses[1].validation.step_1_cid_found
    /\ ~hypotheses[1].validation.step_2_target_match
    /\ ~hypotheses[1].validation.step_3_human_reviewed
    /\ Validated(hypotheses[2])
    /\ hypotheses[2].validation.step_2_target_match
    /\ hypotheses[2].validation.overall_status = "APPROVED"

\* C29: a Validating step returns the hypotheses it was given, as many and
\* in the same order, each with a report whose overall_status is APPROVED
\* or REJECTED and whose reason is not empty; every hypothesis has its own
\* lookups issued and its report is the one its own answers give, whatever
\* happened to the hypotheses before it.
C29_EveryHypothesisValidated ==
    [][pc = "validator" =>
         /\ Len(hypotheses') = Len(hypotheses)
         /\ Len(probe') = Len(hypotheses)
         /\ \A i \in 1..Len(hypotheses) :
               /\ SansValidation(hypotheses'[i]) = SansValidation(hypotheses[i])
               /\ Validated(hypotheses'[i])
               /\ hypotheses'[i].validation.overall_status \in {"APPROVED", "REJECTED"}
               /\ ~IsEmptyText(hypotheses'[i].validation.reason)
               /\ probe'[i].lookups # <<>>
               /\ \E e \in EnvAnswers :
                     /\ RaisedOf(e) = probe'[i].raised
                     /\ hypotheses'[i] =
                           ValidateTrace(hypotheses[i], current_disease, e).hyp]_vars

\* The first hypothesis was rejected at the compound lookup and the one
\* after it went through all three lookups and was approved.
C29_Witness ==
    /\ Len(hypotheses) = 2
    /\ Len(probe) = 2
    /\ StatusOf(hypotheses[1]) = "REJECTED"
    /\ probe[1].lookups = <<"pubchem">>
    /\ Len(probe[2].lookups) = 3
    /\ StatusOf(hypotheses[2]) = "APPROVED"

\* C30: in every reachable state of a run, 0 <= retry_count <= 5
\* (MAX_HYPOTHESES), and a Validating step is never entered with
\* retry_count already equal to 5.
C30_RetryCountBounded ==
    /\ 0 <= retry_count
    /\ retry_count <= MAX_HYPOTHESES
    /\ (pc = "validator" => retry_count < MAX_HYPOTHESES)

\* The bound is attained: a run that ended on its fifth rejection, one of
\* its passes having approved a hypothesis without counting it.
C30_Witness ==
    /\ pc = END
    /\ retry_count = MAX_HYPOTHESES
    /\ \E i \in 1..Len(hypotheses) : StatusOf(hypotheses[i]) = "APPROVED"
    /\ StatusOf(Latest(hypotheses)) = "REJECTED"

\* C31: no run proposes more than MAX_HYPOTHESES (5) hypotheses: in every
\* reachable state hypotheses has at most 5 elements, whatever the
\* validation and critique outcomes are.  The code violates it.
C31_AtMostFiveHypotheses == Len(hypotheses) <= MAX_HYPOTHESES

\* C32: a run that ends because the latest hypothesis is valid and safe
\* ends so only for a hypothesis the critique step judged: its verdict is
\* present.  The code violates it.
C32_AcceptedOnlyIfJudged ==
    (/\ pc = END
     /\ hypotheses # <<>>
     /\ StatusOf(Latest(hypotheses)) = "APPROVED"
     /\ VerdictOf(Latest(hypotheses)) \notin {"REJECT", "RISKY"})
       => Latest(hypotheses).skeptic_verdict # None

\* C33: after every step evaluated_drugs is the sequence of the drug names
\* of hypotheses, in the same order: a proposal step whose LLM call answers
\* appends one hypothesis and that hypothesis's drug name, a failed or
\* skipped proposal step appends to neither.
C33_DrugsMirrorHypotheses ==
    [][/\ evaluated_drugs' = DrugNames(hypotheses')
       /\ (pc = "proponent" =>
             IF llm_call' = "answered"
             THEN /\ Len(hypotheses') = Len(hypotheses) + 1
                  /\ SubSeq(hypotheses', 1, Len(hypotheses)) = hypotheses
                  /\ evaluated_drugs' =
                        Append(evaluated_drugs, Latest(hypotheses').drug_name)
             ELSE /\ hypotheses' = hypotheses
                  /\ evaluated_drugs' = evaluated_drugs)]_vars

\* Two proposals succeeded and the third proposal step failed.
C33_Witness ==
    /\ pc = "skeptic"
    /\ llm_call = "raised"
    /\ Len(hypotheses) = 2
    /\ evaluated_drugs = <<"Ivacaftor", "Aspirin">>

\* C34: _make_request retries only on 429/503 responses and on transport
\* failures: a response with another error status (404) is surfaced to the
\* caller after that request, with no backoff wait and no further attempt.
\* The code violates it.
C34_OtherStatusSurfacedAtOnce ==
    net.status = "404" =>
        /\ cpc = "done"
        /\ outcome = "raised"
        /\ net.slept = 0

\* C35: one call of _make_request issues at most max_retries (5) requests
\* for any interleaving of 429/503 responses and transport failures, and
\* after the first good response it issues no further request and no
\* backoff wait and returns that response.
C35_RequestsBounded ==
    /\ net.requests <= max_retries
    /\ (net.status = "200" =>
          /\ cpc = "done"
          /\ outcome = "response"
          /\ net.slept = 0)
    /\ (cpc = "done" /\ outcome = "response" => net.status = "200")

\* The fifth request of a call whose first four were turned away is
\* answered.
C35_Witness ==
    /\ net.requests = max_retries
    /\ retries = max_retries - 1
    /\ net.status = "200"
    /\ outcome = "response"

\* C40: in _make_request every backoff wait is followed by another request
\* attempt: the wait after the k-th failed attempt lasts backoff_factor^k
\* seconds and the client never sleeps after its final attempt, both for
\* 429/503 responses and for transport failures.  The code violates it.
C40_NoSleepAfterFinalAttempt ==
    /\ (net.slept # 0 => net.slept = wait_time(net.requests - 1))
    /\ (cpc = "done" => net.slept = 0)

\* The normalized candidate strings of a comment that are not empty.
NonEmptyCandidates(comment) ==
    (IF comment.disease = NoDisease THEN {clean(comment.note)}
     ELSE {clean(comment.note), clean(comment.disease.diseaseId),
           clean(comment.disease.acronym), clean(comment.disease.description)})
    \ {<<>>}

\* A containment between a non-empty normalized subject and a non-empty
\* normalized candidate string of the entry.
NonEmptyContainment(uniprot_entry, disease_name) ==
    LET subject == strip(clean(disease_name))
        name == clean(uniprot_entry.recommendedName)
    IN  /\ subject # <<>>
        /\ \/ \E i \in 1..Len(uniprot_entry.comments) :
                 /\ uniprot_entry.comments[i].commentType = "DISEASE"
                 /\ \E cand \in NonEmptyCandidates(uniprot_entry.comments[i]) :
                       in_text(subject, cand) \/ in_text(cand, subject)
           \/ name # <<>> /\ in_text(subject, name)

\* C36: the disease-link check reports a link only through a containment
\* between a non-empty normalized subject and a non-empty normalized
\* candidate string: an absent or empty name or acronym never links by
\* itself, and a subject that is empty once normalized is never linked.
\* The code violates it.
C36_LinkNeedsText ==
    (/\ call_result # NoResult
     /\ "uniprot_entry" \in DOMAIN call_args
     /\ call_result.value)
    => NonEmptyContainment(call_args.uniprot_entry, call_args.disease_name)

\* C37: when the Gathering step yields no targets, the proposal step makes
\* no LLM call and adds no hypothesis, and the decision after the first
\* Validating step is END, with hypotheses, debate_history and
\* evaluated_drugs empty, retry_count = 0 and last_rejection_reason absent.
C37_NoTargetsSinglePass ==
    /\ []((pc # "explorer" /\ genetic_targets = <<>>) =>
            /\ hypotheses = <<>>
            /\ debate_history = <<>>
            /\ evaluated_drugs = <<>>
            /\ retry_count = 0
            /\ last_rejection_reason = NoReason
            /\ llm_call = "none")
    /\ [][(pc = "validator" /\ genetic_targets = <<>>) => pc' = END]_vars

\* A run whose literature search answered and whose target search found
\* nothing has ended.
C37_Witness ==
    /\ pc = END
    /\ lit_search = "answered"
    /\ genetic_targets = <<>>
    /\ hypotheses = <<>>

\* C39: when the fetch of page k fails with a request error,
\* get_uniprot_data does not raise: it stops following the cursor and
\* returns exactly the results of pages 1..k-1 in order (none when k = 1);
\* a page whose payload lacks the results field adds no element and the
\* pagination goes on with its next locator.
C39_PartialResultsOnError ==
    /\ []((cpc = "done" /\ net.status = "error" /\ pages # NoPages) =>
            /\ outcome = "results"
            /\ url = net.requests
            /\ all_results = Flatten(pages, net.requests - 1))
    /\ [][(/\ cpc = "fetch"
           /\ pages # NoPages
           /\ net'.status = "200"
           /\ pages[url].data = NoField)
          => /\ all_results' = all_results
             /\ url' = (IF url < Len(pages) THEN url + 1 ELSE NoUrl)
             /\ (url < Len(pages) => cpc' = "fetch")]_vars

\* The third request failed after a page without the results field and a
\* page of two results.
C39_Witness ==
    /\ cpc = "done"
    /\ pages # NoPages
    /\ net.status = "error"
    /\ net.requests = 3
    /\ pages[1].data = NoField
    /\ Len(all_results) = 2

\* C38: when two runs in different threads share one PubChemAPI instance,
\* any two requests sent through it, by the same thread or by different
\* ones, are at least min_interval apart in every interleaving of their
\* _wait_for_rate_limit calls.  The code violates it.
C38_ThreadsSerialized ==
    \A t, u \in Threads :
       \A i \in 1..Len(threads[t].sent), j \in 1..Len(threads[u].sent) :
          (t # u \/ i < j) =>
             \/ threads[u].sent[j] - threads[t].sent[i] >= min_interval
             \/ threads[t].sent[i] - threads[u].sent[j] >= min_interval

====
